---- MODULE Spec2Model ----
(***************************************************************************)
(* File integrity checker (src/final_py/fic.py): the path list file, the   *)
(* hash store files (baseline, last scan), the hashing pass, the store     *)
(* parser and the diff of cmd_check, as a state machine; and the card      *)
(* server (src/lab04/task/server_demo.py): its validators and the          *)
(* submit_card handler with the data file it appends to.                   *)
(*                                                                         *)
(* A text is a sequence of characters, each a one-character string; a      *)
(* digest is one character of a store text (it holds no whitespace, so     *)
(* str.split sees it as one run). A file is a record [exists, text].       *)
(***************************************************************************)
EXTENDS Integers, Sequences, FiniteSets, TLC

\* ---------------------------------------------------------------- bounds
MaxScans == 2
MaxEvents == 2

\* ------------------------------------------------------------ characters
NL == "\n"
SP == " "
STAR == "*"
HASHCH == "#"

\* Code points of the characters the model uses: Python compares str by
\* code point (sorted() in cmd_check).
Ord(c) ==
    CASE c = NL -> 10
      [] c = SP -> 32
      [] c = HASHCH -> 35
      [] c = STAR -> 42
      [] c = "/" -> 47
      [] c = "a" -> 97
      [] c = "b" -> 98
      [] c = "h" -> 104
      [] c = "~" -> 126
      [] OTHER -> 200

\* str.isspace for the characters of the model.
IsSpace(c) == c \in {SP, NL}

\* s < t for Python str.
RECURSIVE StrLess(_, _)
StrLess(s, t) ==
    IF t = <<>> THEN FALSE
    ELSE IF s = <<>> THEN TRUE
    ELSE IF Head(s) = Head(t) THEN StrLess(Tail(s), Tail(t))
    ELSE Ord(Head(s)) < Ord(Head(t))

\* Sorted with the comparison turned round.
RECURSIVE SortedDescending(_)
SortedDescending(S) ==
    IF S = {} THEN <<>>
    ELSE LET m == CHOOSE x \in S : \A y \in S \ {x} : StrLess(y, x)
         IN <<m>> \o SortedDescending(S \ {m})

\* sorted(S) for a finite set of str.
RECURSIVE Sorted(_)
Sorted(S) ==
    IF S = {} THEN <<>>
    ELSE LET m == CHOOSE x \in S : \A y \in S \ {x} : StrLess(x, y)
         IN <<m>> \o Sorted(S \ {m})

\* str.splitlines(): no empty last line after a final newline.
RECURSIVE SplitLines(_)
SplitLines(t) ==
    IF t = <<>> THEN <<>>
    ELSE IF \E i \in 1..Len(t) : t[i] = NL
    THEN LET i == CHOOSE k \in 1..Len(t) :
                      t[k] = NL /\ \A j \in 1..(k - 1) : t[j] # NL
         IN <<SubSeq(t, 1, i - 1)>> \o SplitLines(SubSeq(t, i + 1, Len(t)))
    ELSE <<t>>

\* "\n".join(lines)
RECURSIVE JoinLines(_)
JoinLines(lines) ==
    IF lines = <<>> THEN <<>>
    ELSE IF Len(lines) = 1 THEN lines[1]
    ELSE lines[1] \o <<NL>> \o JoinLines(Tail(lines))

\* str.lstrip(chars)
RECURSIVE LStrip(_, _)
LStrip(s, chars) ==
    IF s # <<>> /\ Head(s) \in chars THEN LStrip(Tail(s), chars) ELSE s

\* str.rstrip(chars)
RECURSIVE RStrip(_, _)
RStrip(s, chars) ==
    IF s # <<>> /\ s[Len(s)] \in chars
    THEN RStrip(SubSeq(s, 1, Len(s) - 1), chars)
    ELSE s

\* str.strip()
Strip(s) == RStrip(LStrip(s, {SP, NL}), {SP, NL})

\* The first run of non-whitespace characters of s.
RECURSIVE TakeWord(_)
TakeWord(s) ==
    IF s = <<>> \/ IsSpace(Head(s)) THEN <<>>
    ELSE <<Head(s)>> \o TakeWord(Tail(s))

\* str.split(maxsplit=1): the first word and, when anything but whitespace
\* follows it, the rest of the line from the next word on.
SplitOnce(line) ==
    LET s == LStrip(line, {SP, NL})
        w == TakeWord(s)
        rest == LStrip(SubSeq(s, Len(w) + 1, Len(s)), {SP, NL})
    IN IF s = <<>> THEN <<>>
       ELSE IF rest = <<>> THEN <<w>>
       ELSE <<w, rest>>

\* ------------------------------------------------------------ data model
\* The files the list can name (path strings), in a directory that holds
\* both a file named a and a file named *a.
PathA == <<"a">>
PathB == <<"b">>
PathStarA == <<STAR, "a">>
Files == {PathA, PathB, PathStarA}

\* What a path is on disk: no regular file there, a regular file whose read
\* raises OSError, or a regular file with the bytes x or y.
Contents == {"absent", "unreadable", "x", "y"}

NoFile == [exists |-> FALSE, text |-> <<>>]
FileOf(t) == [exists |-> TRUE, text |-> t]

MISSING == "MISSING"
ERROR == "ERROR"

\* Path.home()
HomeDir == <<"/", "h">>

\* ------------------------------------------------------- path list store
\* One line of the list file as iter_list_paths yields it: <<>> for a line
\* it skips.
ListLinePath(raw) ==
    LET line == Strip(raw)
    IN IF line = <<>> \/ Head(line) = HASHCH THEN <<>>
       ELSE IF Len(line) >= 2 /\ line[1] = "~" /\ line[2] = "/"
       THEN IF Len(line) = 2 THEN HomeDir
            ELSE HomeDir \o <<"/">> \o SubSeq(line, 3, Len(line))
       ELSE line

RECURSIVE YieldPaths(_)
YieldPaths(raws) ==
    IF raws = <<>> THEN <<>>
    ELSE LET p == ListLinePath(Head(raws))
         IN (IF p = <<>> THEN <<>> ELSE <<p>>) \o YieldPaths(Tail(raws))

\* iter_list_paths(listfile) for a list file that exists.
IterListPaths(text) == YieldPaths(SplitLines(text))

\* ---------------------------------------------------------------- hasher
\* hashlib.sha256 of the bytes, as one token; distinct bytes, distinct
\* digests.
Sha256OfFile(c) == IF c = "x" THEN "sha(x)" ELSE "sha(y)"

\* What is at path p in the file system f.
OnDisk(f, p) == IF p \in DOMAIN f THEN f[p] ELSE "absent"

\* The store line hash_files_from_list appends for path p.
StoreLine(f, p) ==
    LET c == OnDisk(f, p)
    IN IF c # "absent"
       THEN IF c # "unreadable"
            THEN <<Sha256OfFile(c), SP, SP>> \o p
            ELSE <<ERROR, SP, SP>> \o p
       ELSE <<MISSING, SP, SP>> \o p

RECURSIVE StoreLines(_, _)
StoreLines(f, paths) ==
    IF paths = <<>> THEN <<>>
    ELSE <<StoreLine(f, Head(paths))>> \o StoreLines(f, Tail(paths))

\* hash_files_from_list giving up at the first file it cannot read: the
\* paths after it get no line.
StoreTextUntilError(f, paths) ==
    LET bad == {i \in 1..Len(paths) : OnDisk(f, paths[i]) = "unreadable"}
        n == IF bad = {} THEN Len(paths)
             ELSE CHOOSE i \in bad : \A j \in bad : i <= j
        lines == StoreLines(f, SubSeq(paths, 1, n))
    IN JoinLines(lines) \o (IF lines # <<>> THEN <<NL>> ELSE <<>>)

\* The text hash_files_from_list writes to out_file for the paths the list
\* yields.
StoreText(f, paths) ==
    LET lines == StoreLines(f, paths)
    IN JoinLines(lines) \o (IF lines # <<>> THEN <<NL>> ELSE <<>>)

HashFilesFromList(listText, f) == StoreText(f, IterListPaths(listText))

\* ----------------------------------------------------------- store codec
EmptyMap == [p \in {} |-> MISSING]

RECURSIVE ParseLines(_, _)
ParseLines(raws, mapping) ==
    IF raws = <<>> THEN mapping
    ELSE LET line == RStrip(Head(raws), {NL})
             parts == SplitOnce(line)
         IN IF line = <<>> \/ Len(parts) # 2
            THEN ParseLines(Tail(raws), mapping)
            ELSE LET h == parts[1]
                     path == LStrip(parts[2], {SP, STAR})
                 IN ParseLines(Tail(raws),
                               [q \in DOMAIN mapping \cup {path} |->
                                   IF q = path THEN h ELSE mapping[q]])

\* parse_hash_file(hash_file) for a store file that exists: path -> token.
ParseHashFile(text) == ParseLines(SplitLines(text), EmptyMap)

\* ----------------------------------------------------------- diff engine
Finding(kind, path) == [kind |-> kind, path |-> path]

\* BaselineStep with its last test dropped: any digest counts as modified.
BaselineStepAlwaysModified(acc, scan, path, bhash) ==
    IF path \notin DOMAIN scan
    THEN [log |-> Append(acc.log, Finding("MISSING (not scanned)", path)),
          changes |-> acc.changes + 1]
    ELSE IF scan[path] = <<MISSING>>
    THEN [log |-> Append(acc.log, Finding("MISSING", path)),
          changes |-> acc.changes + 1]
    ELSE IF scan[path] = <<ERROR>>
    THEN [log |-> Append(acc.log, Finding("ERROR", path)),
          changes |-> acc.changes + 1]
    ELSE [log |-> Append(acc.log, Finding("MODIFIED", path)),
          changes |-> acc.changes + 1]

\* BaselineStep without its ERROR branch.
BaselineStepNoError(acc, scan, path, bhash) ==
    IF path \notin DOMAIN scan
    THEN [log |-> Append(acc.log, Finding("MISSING (not scanned)", path)),
          changes |-> acc.changes + 1]
    ELSE IF scan[path] = <<MISSING>>
    THEN [log |-> Append(acc.log, Finding("MISSING", path)),
          changes |-> acc.changes + 1]
    ELSE IF bhash # scan[path]
    THEN [log |-> Append(acc.log, Finding("MODIFIED", path)),
          changes |-> acc.changes + 1]
    ELSE acc

\* One pass of the first loop of cmd_check: the log and the counter after
\* the baseline entry (path, bhash).
BaselineStep(acc, scan, path, bhash) ==
    IF path \notin DOMAIN scan
    THEN [log |-> Append(acc.log, Finding("MISSING (not scanned)", path)),
          changes |-> acc.changes + 1]
    ELSE IF scan[path] = <<MISSING>>
    THEN [log |-> Append(acc.log, Finding("MISSING", path)),
          changes |-> acc.changes + 1]
    ELSE IF scan[path] = <<ERROR>>
    THEN [log |-> Append(acc.log, Finding("ERROR", path)),
          changes |-> acc.changes + 1]
    ELSE IF bhash # scan[path]
    THEN [log |-> Append(acc.log, Finding("MODIFIED", path)),
          changes |-> acc.changes + 1]
    ELSE acc

RECURSIVE BaselineLoop(_, _, _, _)
BaselineLoop(acc, base, scan, paths) ==
    IF paths = <<>> THEN acc
    ELSE BaselineLoop(BaselineStep(acc, scan, Head(paths), base[Head(paths)]),
                      base, scan, Tail(paths))

\* NewStep without its changes += 1.
NewStepUncounted(acc, path) ==
    [log |-> Append(acc.log, Finding("NEW", path)),
     changes |-> acc.changes]

\* One pass of the second loop of cmd_check.
NewStep(acc, path) ==
    [log |-> Append(acc.log, Finding("NEW", path)),
     changes |-> acc.changes + 1]

RECURSIVE NewLoop(_, _)
NewLoop(acc, paths) ==
    IF paths = <<>> THEN acc
    ELSE NewLoop(NewStep(acc, Head(paths)), Tail(paths))

\* The last log line of cmd_check.
Verdict(changes) ==
    IF changes = 0 THEN [kind |-> "OK", count |-> 0]
    ELSE [kind |-> "ALERT", count |-> changes]

\* The comparison of cmd_check over the two parsed stores: the findings it
\* logs, in order, its counter, and the verdict line.
Compare(base, scan) ==
    LET start == [log |-> <<>>, changes |-> 0]
        first == BaselineLoop(start, base, scan, Sorted(DOMAIN base))
        second == NewLoop(first, Sorted(DOMAIN scan \ DOMAIN base))
    IN [findings |-> second.log,
        nBaseline |-> Len(first.log),
        changes |-> second.changes,
        verdict |-> Verdict(second.changes)]

\* ----------------------------------------------------------------- state
VARIABLES
    listFile,     \* the path list file the commands are given
    fs,           \* Files -> Contents: what each path is on disk
    baseline,     \* db/baseline.sha256
    lastScan,     \* db/last_scan.sha256
    tmpBaseline,  \* db/.baseline_tmp
    tmpScan,      \* db/.scan_tmp
    pc,           \* where the running command stands; "idle" between commands
    loc,          \* the running command's locals
    report,       \* what the last completed comparison logged
    status,       \* how the last command ended: "ok", "die", "killed"
    lastCmd,      \* the command (or "fs", "crash") the last step belonged to
    atInit,       \* history: list paths and disk at the scan behind baseline
    atCheck,      \* history: list paths and disk at the scan behind report
    cmdPre,       \* history: <<baseline, lastScan>> when the command began
    cmdPost,      \* history: <<baseline, lastScan>> the command is to produce
    nScans, nEvents,
    dataFile,     \* card_data.txt of the card server: the records appended
    response      \* the status code of the card server's last response

vars == <<listFile, fs, baseline, lastScan, tmpBaseline, tmpScan, pc, loc,
          report, status, lastCmd, atInit, atCheck, cmdPre, cmdPost,
          nScans, nEvents, dataFile, response>>

\* The state of the integrity checker, and that of the card server.
fic == <<listFile, fs, baseline, lastScan, tmpBaseline, tmpScan, pc, loc,
         report, status, lastCmd, atInit, atCheck, cmdPre, cmdPost,
         nScans, nEvents>>
card == <<dataFile, response>>

files == <<baseline, lastScan, tmpBaseline, tmpScan>>
history == <<atInit, atCheck>>

\* The card server as started: the data file exists and is empty, and no
\* request has been answered.
NoResponse == [code |-> 0, message |-> "none"]
CardInit == dataFile = <<>> /\ response = NoResponse

NoLoc == [text |-> <<>>, paths |-> <<>>, fs |-> <<>>]
NoScan == [paths |-> <<>>, fs |-> <<>>, valid |-> FALSE]
NoReport == [findings |-> <<>>, nBaseline |-> 0, changes |-> 0,
             verdict |-> [kind |-> "none", count |-> 0]]

\* The list files a run starts from: none; two paths out of order; a
\* comment, a blank line and a path; one path and no final newline.
InitialLists ==
    { NoFile,
      FileOf(<<"b", NL, "a", NL>>),
      FileOf(<<HASHCH, NL, NL, STAR, "a", NL>>),
      FileOf(<<"a">>) }

\* The path arguments of add and remove.
PathArgs == Files

InitialDisks == { [p \in Files |-> IF p = PathB THEN "y" ELSE "x"] }

Init ==
    /\ listFile \in InitialLists
    /\ fs \in InitialDisks
    /\ baseline = NoFile
    /\ lastScan = NoFile
    /\ tmpBaseline = NoFile
    /\ tmpScan = NoFile
    /\ pc = "idle"
    /\ loc = NoLoc
    /\ report = NoReport
    /\ status = "ok"
    /\ lastCmd = "none"
    /\ atInit = NoScan
    /\ atCheck = NoScan
    /\ cmdPre = <<NoFile, NoFile>>
    /\ cmdPost = <<NoFile, NoFile>>
    /\ nScans = 0
    /\ nEvents = 0
    /\ CardInit

IsScan(cmd) == cmd \in {"init", "check"}

CanStart(cmd) ==
    /\ pc = "idle"
    /\ IF IsScan(cmd) THEN nScans < MaxScans ELSE nEvents < MaxEvents

\* The command counts against the bound on its kind.
Counted(cmd) ==
    /\ nScans' = IF IsScan(cmd) THEN nScans + 1 ELSE nScans
    /\ nEvents' = IF IsScan(cmd) THEN nEvents ELSE nEvents + 1

\* die(): the command logs the error and exits with status 1.
Die(cmd) ==
    /\ status' = "die"
    /\ lastCmd' = cmd
    /\ Counted(cmd)
    /\ cmdPre' = <<baseline, lastScan>>
    /\ cmdPost' = <<baseline, lastScan>>
    /\ UNCHANGED <<listFile, fs, files, pc, loc, report, history>>
    /\ UNCHANGED card

\* The scan of hash_files_from_list, up to the open of out_file for writing.
ScanLocals == [text |-> HashFilesFromList(listFile.text, fs),
               paths |-> IterListPaths(listFile.text),
               fs |-> fs]

\* ------------------------------------------------------------- cmd_init
CmdInitDie ==
    /\ CanStart("init")
    /\ ~listFile.exists
    /\ Die("init")

\* hash_files_from_list(listfile, tmp): the list is read, every path is
\* hashed, and write_text opens (creates, truncates) the temporary file.
CmdInitScan ==
    /\ CanStart("init")
    /\ listFile.exists
    /\ loc' = ScanLocals
    /\ tmpBaseline' = FileOf(<<>>)
    /\ pc' = "init_write_tmp"
    /\ lastCmd' = "init"
    /\ Counted("init")
    /\ cmdPre' = <<baseline, lastScan>>
    /\ cmdPost' = <<FileOf(ScanLocals.text), FileOf(ScanLocals.text)>>
    /\ UNCHANGED <<listFile, fs, baseline, lastScan, tmpScan, report, status,
                   history>>
    /\ UNCHANGED card

\* write_text writes the store text to the temporary file.
CmdInitWriteTmp ==
    /\ pc = "init_write_tmp"
    /\ tmpBaseline' = FileOf(loc.text)
    /\ pc' = "init_replace"
    /\ lastCmd' = "init"
    /\ UNCHANGED <<listFile, fs, baseline, lastScan, tmpScan, loc, report,
                   status, history, cmdPre, cmdPost,
                   nScans, nEvents>>
    /\ UNCHANGED card

\* cmd_init adding the new store to the baseline instead of replacing it.
CmdInitReplaceAppend ==
    /\ pc = "init_replace"
    /\ baseline' = FileOf(baseline.text \o tmpBaseline.text)
    /\ tmpBaseline' = NoFile
    /\ atInit' = [paths |-> loc.paths, fs |-> loc.fs, valid |-> TRUE]
    /\ pc' = "init_copy_open"
    /\ lastCmd' = "init"
    /\ UNCHANGED <<listFile, fs, lastScan, tmpScan, loc, report, status,
                   atCheck, cmdPre, cmdPost, nScans, nEvents>>
    /\ UNCHANGED card

\* tmp.replace(BASELINE)
CmdInitReplace ==
    /\ pc = "init_replace"
    /\ baseline' = tmpBaseline
    /\ tmpBaseline' = NoFile
    /\ atInit' = [paths |-> loc.paths, fs |-> loc.fs, valid |-> TRUE]
    /\ pc' = "init_copy_open"
    /\ lastCmd' = "init"
    /\ UNCHANGED <<listFile, fs, lastScan, tmpScan, loc, report, status,
                   atCheck, cmdPre, cmdPost, nScans, nEvents>>
    /\ UNCHANGED card

\* LAST_SCAN.write_text(BASELINE.read_text()): the baseline is read and
\* write_text opens (creates, truncates) last_scan itself.
CmdInitCopyOpen ==
    /\ pc = "init_copy_open"
    /\ loc' = [loc EXCEPT !.text = baseline.text]
    /\ lastScan' = FileOf(<<>>)
    /\ pc' = "init_copy_write"
    /\ lastCmd' = "init"
    /\ UNCHANGED <<listFile, fs, baseline, tmpBaseline, tmpScan, report,
                   status, history, cmdPre, cmdPost,
                   nScans, nEvents>>
    /\ UNCHANGED card

\* cmd_init without the copy of line 142 taking effect: last_scan is left
\* as the open for writing made it.
CmdInitCopyWriteSkipped ==
    /\ pc = "init_copy_write"
    /\ lastScan' = lastScan
    /\ loc' = NoLoc
    /\ pc' = "idle"
    /\ status' = "ok"
    /\ lastCmd' = "init"
    /\ cmdPre' = cmdPost
    /\ UNCHANGED <<listFile, fs, baseline, tmpBaseline, tmpScan, report,
                   history, cmdPost, nScans, nEvents>>
    /\ UNCHANGED card

\* write_text writes the copy; cmd_init logs and returns.
CmdInitCopyWrite ==
    /\ pc = "init_copy_write"
    /\ lastScan' = FileOf(loc.text)
    /\ loc' = NoLoc
    /\ pc' = "idle"
    /\ status' = "ok"
    /\ lastCmd' = "init"
    /\ cmdPre' = cmdPost
    /\ UNCHANGED <<listFile, fs, baseline, tmpBaseline, tmpScan, report,
                   history, cmdPost, nScans, nEvents>>
    /\ UNCHANGED card

\* ------------------------------------------------------------ cmd_check
\* cmd_check testing for the baseline only after the scan: last_scan is
\* already replaced when the command dies.
CmdCheckDieAfterScan ==
    /\ CanStart("check")
    /\ ~(listFile.exists /\ baseline.exists)
    /\ lastScan' = IF listFile.exists
                   THEN FileOf(HashFilesFromList(listFile.text, fs))
                   ELSE lastScan
    /\ status' = "die"
    /\ lastCmd' = "check"
    /\ Counted("check")
    /\ cmdPre' = <<baseline, lastScan>>
    /\ cmdPost' = <<baseline, lastScan>>
    /\ UNCHANGED <<listFile, fs, baseline, tmpBaseline, tmpScan, pc, loc,
                   report, history>>
    /\ UNCHANGED card

CmdCheckDie ==
    /\ CanStart("check")
    /\ ~(listFile.exists /\ baseline.exists)
    /\ Die("check")

\* hash_files_from_list(listfile, tmp), up to the open of the temporary file.
CmdCheckScan ==
    /\ CanStart("check")
    /\ listFile.exists
    /\ baseline.exists
    /\ loc' = ScanLocals
    /\ tmpScan' = FileOf(<<>>)
    /\ pc' = "check_write_tmp"
    /\ lastCmd' = "check"
    /\ Counted("check")
    /\ cmdPre' = <<baseline, lastScan>>
    /\ cmdPost' = <<baseline, FileOf(ScanLocals.text)>>
    /\ UNCHANGED <<listFile, fs, baseline, lastScan, tmpBaseline, report,
                   status, history>>
    /\ UNCHANGED card

CmdCheckWriteTmp ==
    /\ pc = "check_write_tmp"
    /\ tmpScan' = FileOf(loc.text)
    /\ pc' = "check_replace"
    /\ lastCmd' = "check"
    /\ UNCHANGED <<listFile, fs, baseline, lastScan, tmpBaseline, loc, report,
                   status, history, cmdPre, cmdPost,
                   nScans, nEvents>>
    /\ UNCHANGED card

\* CmdCheckReplace with BASELINE as the target of the replace.
CmdCheckReplaceBaseline ==
    /\ pc = "check_replace"
    /\ baseline' = tmpScan
    /\ tmpScan' = NoFile
    /\ pc' = "check_compare"
    /\ lastCmd' = "check"
    /\ UNCHANGED <<listFile, fs, lastScan, tmpBaseline, loc, report, status,
                   history, cmdPre, cmdPost, nScans, nEvents>>
    /\ UNCHANGED card

\* tmp.replace(LAST_SCAN)
CmdCheckReplace ==
    /\ pc = "check_replace"
    /\ lastScan' = tmpScan
    /\ tmpScan' = NoFile
    /\ pc' = "check_compare"
    /\ lastCmd' = "check"
    /\ UNCHANGED <<listFile, fs, baseline, tmpBaseline, loc, report, status,
                   history, cmdPre, cmdPost, nScans, nEvents>>
    /\ UNCHANGED card

\* Both stores are parsed and compared; every finding and the verdict are
\* logged.
CmdCheckCompare ==
    /\ pc = "check_compare"
    /\ report' = Compare(ParseHashFile(baseline.text),
                         ParseHashFile(lastScan.text))
    /\ atCheck' = [paths |-> loc.paths, fs |-> loc.fs, valid |-> TRUE]
    /\ loc' = NoLoc
    /\ pc' = "idle"
    /\ status' = "ok"
    /\ lastCmd' = "check"
    /\ cmdPre' = cmdPost
    /\ UNCHANGED <<listFile, fs, files, atInit, cmdPost,
                   nScans, nEvents>>
    /\ UNCHANGED card

\* -------------------------------------------------------------- cmd_add
CmdAddDie(path) ==
    /\ CanStart("add")
    /\ ~listFile.exists
    /\ Die("add")

\* The text of the list file after cmd_add(path).
AddToList(text, path) ==
    LET existing == SplitLines(text)
    IN IF \E i \in 1..Len(existing) : Strip(existing[i]) = path
       THEN text
       ELSE text
            \o (IF existing # <<>> /\ existing[Len(existing)] # <<>>
                THEN <<NL>> ELSE <<>>)
            \o path \o <<NL>>

CmdAdd(path) ==
    /\ CanStart("add")
    /\ listFile.exists
    /\ listFile' = FileOf(AddToList(listFile.text, path))
    /\ status' = "ok"
    /\ lastCmd' = "add"
    /\ Counted("add")
    /\ cmdPre' = <<baseline, lastScan>>
    /\ cmdPost' = <<baseline, lastScan>>
    /\ UNCHANGED <<fs, files, pc, loc, report, history>>
    /\ UNCHANGED card

\* ----------------------------------------------------------- cmd_remove
CmdRemoveDie(path) ==
    /\ CanStart("remove")
    /\ ~listFile.exists
    /\ Die("remove")

RECURSIVE KeepLines(_, _)
KeepLines(lines, path) ==
    IF lines = <<>> THEN <<>>
    ELSE (IF Strip(Head(lines)) # path THEN <<Head(lines)>> ELSE <<>>)
         \o KeepLines(Tail(lines), path)

\* cmd_remove joining the kept lines without the final newline.
RemoveFromListNoNewline(text, path) ==
    JoinLines(KeepLines(SplitLines(text), path))

\* The text of the list file after cmd_remove(path).
RemoveFromList(text, path) ==
    JoinLines(KeepLines(SplitLines(text), path)) \o <<NL>>

CmdRemove(path) ==
    /\ CanStart("remove")
    /\ listFile.exists
    /\ listFile' = FileOf(RemoveFromList(listFile.text, path))
    /\ status' = "ok"
    /\ lastCmd' = "remove"
    /\ Counted("remove")
    /\ cmdPre' = <<baseline, lastScan>>
    /\ cmdPost' = <<baseline, lastScan>>
    /\ UNCHANGED <<fs, files, pc, loc, report, history>>
    /\ UNCHANGED card

\* ---------------------------------------------------------- environment
\* Between two commands a tracked file is written, deleted, made unreadable
\* or created.
FsChange(p, c) ==
    /\ pc = "idle"
    /\ nEvents < MaxEvents
    /\ c # fs[p]
    /\ fs' = [fs EXCEPT ![p] = c]
    /\ lastCmd' = "fs"
    /\ nEvents' = nEvents + 1
    /\ UNCHANGED <<listFile, files, pc, loc, report, status, history,
                   cmdPre, cmdPost, nScans>>
    /\ UNCHANGED card

\* Between two commands the list file is deleted.
ListUnlink ==
    /\ pc = "idle"
    /\ nEvents < MaxEvents
    /\ listFile.exists
    /\ listFile' = NoFile
    /\ lastCmd' = "fs"
    /\ nEvents' = nEvents + 1
    /\ UNCHANGED <<fs, files, pc, loc, report, status, history,
                   cmdPre, cmdPost, nScans>>
    /\ UNCHANGED card

\* What a file holds when the process is killed while write_text is writing
\* text to it: nothing yet, or the first half.
KilledWrites(text) == {<<>>, SubSeq(text, 1, Len(text) \div 2)}

\* The process is killed (or the machine stops) in the middle of a command.
Crash ==
    /\ pc # "idle"
    /\ nEvents < MaxEvents
    /\ \E t \in KilledWrites(loc.text) :
        /\ tmpBaseline' = IF pc = "init_write_tmp" THEN FileOf(t)
                          ELSE tmpBaseline
        /\ tmpScan' = IF pc = "check_write_tmp" THEN FileOf(t) ELSE tmpScan
        /\ lastScan' = IF pc = "init_copy_write" THEN FileOf(t) ELSE lastScan
    /\ loc' = NoLoc
    /\ pc' = "idle"
    /\ status' = "killed"
    /\ lastCmd' = "crash"
    /\ nEvents' = nEvents + 1
    /\ UNCHANGED <<listFile, fs, baseline, report, history,
                   cmdPre, cmdPost, nScans>>
    /\ UNCHANGED card

Next ==
    \/ CmdInitDie
    \/ CmdInitScan
    \/ CmdInitWriteTmp
    \/ CmdInitReplace
    \/ CmdInitCopyOpen
    \/ CmdInitCopyWrite
    \/ CmdCheckDie
    \/ CmdCheckScan
    \/ CmdCheckWriteTmp
    \/ CmdCheckReplace
    \/ CmdCheckCompare
    \/ \E path \in PathArgs : CmdAddDie(path)
    \/ \E path \in PathArgs : CmdAdd(path)
    \/ \E path \in PathArgs : CmdRemoveDie(path)
    \/ \E path \in PathArgs : CmdRemove(path)
    \/ \E p \in Files, c \in Contents : FsChange(p, c)
    \/ ListUnlink
    \/ Crash

Spec == Init /\ [][Next]_vars

\* ------------------------------------------- the comparison on its own
\* The lists a store can come from: up to two paths, repeated or not.
CompareLists ==
    {<<>>} \cup {<<p>> : p \in Files} \cup {<<pq[1], pq[2]>> : pq \in Files \X Files}

\* Every store text one pass can write for these lists.
StoreTexts == {StoreText(f, l) : f \in [Files -> Contents], l \in CompareLists}

\* The list file that yields the paths l, one per line.
ListTextOf(l) == JoinLines(l) \o (IF l # <<>> THEN <<NL>> ELSE <<>>)

\* cmd_check after tmp.replace(LAST_SCAN): last_scan is the scan of some list
\* on some disk, the baseline a store an earlier init wrote.
InitCompare ==
    /\ \E l \in CompareLists :
        /\ listFile = FileOf(ListTextOf(l))
        /\ fs \in [Files -> Contents]
        /\ loc = ScanLocals
    /\ baseline \in {FileOf(t) : t \in StoreTexts}
    /\ lastScan = FileOf(loc.text)
    /\ tmpBaseline = NoFile
    /\ tmpScan = NoFile
    /\ pc = "check_compare"
    /\ report = NoReport
    /\ status = "ok"
    /\ lastCmd = "check"
    /\ atInit = NoScan
    /\ atCheck = NoScan
    /\ cmdPre = <<baseline, baseline>>
    /\ cmdPost = <<baseline, lastScan>>
    /\ nScans = 1
    /\ nEvents = 0
    /\ CardInit

NextCompare == CmdCheckCompare

SpecCompare == InitCompare /\ [][NextCompare]_vars

\* ================================================================ claims
\* The two parsed stores of the comparison.
Base == ParseHashFile(baseline.text)
Scan == ParseHashFile(lastScan.text)

\* cmd_check has just returned: report is its comparison of Base and Scan.
Compared == pc = "idle" /\ lastCmd = "check" /\ status = "ok"

IsDigest(token) == token # <<MISSING>> /\ token # <<ERROR>>

\* The positions of the findings that name path p.
FindingsFor(p) ==
    {i \in 1..Len(report.findings) : report.findings[i].path = p}

\* The finding the contract gives baseline path p, "none" for no finding.
ContractKind(p) ==
    IF p \notin DOMAIN Scan THEN "MISSING (not scanned)"
    ELSE IF Scan[p] = <<MISSING>> THEN "MISSING"
    ELSE IF Scan[p] = <<ERROR>> THEN "ERROR"
    ELSE IF IsDigest(Scan[p]) /\ Scan[p] # Base[p] THEN "MODIFIED"
    ELSE "none"

\* C1: in the baseline phase of check every baseline path gets exactly the
\* finding of the contract (MissingNotScanned when absent from the scan,
\* Missing for MISSING, Error for ERROR, Modified for another digest, none
\* for the same digest), at most one, and the phase holds nothing else.
C1_BaselinePhase ==
    Compared =>
        LET phase == SubSeq(report.findings, 1, report.nBaseline)
        IN /\ \A i \in 1..Len(phase) :
                /\ phase[i].path \in DOMAIN Base
                /\ phase[i].kind # "NEW"
           /\ \A p \in DOMAIN Base :
                LET hits == {i \in 1..Len(phase) : phase[i].path = p}
                IN IF ContractKind(p) = "none" THEN hits = {}
                   ELSE /\ Cardinality(hits) = 1
                        /\ \A i \in hits : phase[i].kind = ContractKind(p)

\* A comparison of two baseline paths: one unreadable now, one unchanged.
C1_Witness ==
    /\ Compared
    /\ Cardinality(DOMAIN Base) = 2
    /\ report.nBaseline = 1
    /\ report.findings[1].kind = "ERROR"
    /\ \E p \in DOMAIN Base : p \in DOMAIN Scan /\ Scan[p] = Base[p]
                              /\ IsDigest(Scan[p])

\* C9: the findings come in two phases, every finding for a baseline path
\* before every New finding, and in ascending order of path string within
\* each phase; so the sequence is fixed by the two mappings alone.
C9_TwoPhasesSorted ==
    Compared =>
        LET f == report.findings
        IN /\ \A i \in 1..Len(f) :
                (f[i].kind = "NEW") <=> (f[i].path \notin DOMAIN Base)
           /\ \A i, j \in 1..Len(f) :
                /\ (f[i].kind # "NEW" /\ f[j].kind = "NEW") => i < j
                /\ ((f[i].kind = "NEW") <=> (f[j].kind = "NEW")) /\ i < j
                    => StrLess(f[i].path, f[j].path)

\* Two baseline findings then a comparison with two New findings: a
\* baseline finding for b before the New finding for a.
C9_Witness ==
    /\ Compared
    /\ Len(report.findings) = 2
    /\ report.findings[1] = Finding("MISSING (not scanned)", PathB)
    /\ report.findings[2] = Finding("NEW", PathA)

\* C10: the count check reports is the number of findings it emitted, the
\* baseline-phase findings plus one New finding per path only in the scan;
\* the verdict is OK exactly when the count is zero and ALERT with that
\* count otherwise.
C10_CountAndVerdict ==
    Compared =>
        /\ report.changes = Len(report.findings)
        /\ Len(report.findings) =
              Cardinality({p \in DOMAIN Base : ContractKind(p) # "none"})
              + Cardinality(DOMAIN Scan \ DOMAIN Base)
        /\ (report.verdict.kind = "OK") <=> (report.changes = 0)
        /\ report.changes # 0 =>
              report.verdict = [kind |-> "ALERT", count |-> report.changes]

\* An ALERT that counts one baseline finding and one New finding.
C10_Witness ==
    /\ Compared
    /\ report.verdict = [kind |-> "ALERT", count |-> 2]
    /\ report.nBaseline = 1
    /\ report.findings[2].kind = "NEW"

\* C2: the baseline is the store the last init installed; no step of check,
\* add or remove changes the baseline, and no step of add or remove changes
\* last_scan either.
C2_BaselineOnlyByInit ==
    /\ [](baseline.exists =>
            /\ atInit.valid
            /\ baseline.text = StoreText(atInit.fs, atInit.paths))
    /\ [][/\ lastCmd' \in {"check", "add", "remove"} => baseline' = baseline
          /\ lastCmd' \in {"add", "remove"} => lastScan' = lastScan
          /\ baseline' # baseline => lastCmd' = "init"]_vars

\* A check has replaced last_scan by a store that differs from the baseline
\* it left alone.
C2_Witness ==
    /\ Compared
    /\ baseline.exists
    /\ lastScan.exists
    /\ lastScan # baseline
    /\ cmdPre[1] = baseline

\* C3: a command is one atomic transition of the stores: at every step of
\* it, and after a kill at any step, <<baseline, last_scan>> is the pair from
\* before the command or the pair the completed command produces.
C3_AtomicCommands == <<baseline, lastScan>> \in {cmdPre, cmdPost}

\* C4: baseline and last_scan are only ever replaced whole: each of them is
\* the file from before the command or the complete store the command
\* writes, never a truncated or half-written one.
C4_NoPartialStore ==
    /\ baseline \in {cmdPre[1], cmdPost[1]}
    /\ lastScan \in {cmdPre[2], cmdPost[2]}

\* ------------------------------------------------ init followed by check
Listed(scan, p) == \E i \in 1..Len(scan.paths) : scan.paths[i] = p
Readable(c) == c \notin {"absent", "unreadable"}

\* The key parse_hash_file files the store line of path p under.
StoreKey(p) == LStrip(p, {SP, STAR})

\* A check has completed against the baseline of the last init.
Checked == Compared /\ atInit.valid /\ atCheck.valid

ChangesHadItStayed(p) ==
    Compare(Base,
            ParseHashFile(StoreText([atCheck.fs EXCEPT ![p] = atInit.fs[p]],
                                    atCheck.paths))).changes

\* C6: a path listed at init and at check, a readable regular file at init
\* and deleted before check, gets Missing(path) exactly once, last_scan maps
\* it to MISSING, and the count is one more than had the file stayed.
C6_DeletionDetected ==
    Checked =>
        \A p \in Files :
            ( /\ Listed(atInit, p) /\ Listed(atCheck, p)
              /\ Readable(atInit.fs[p])
              /\ atCheck.fs[p] = "absent" )
            => /\ Cardinality(FindingsFor(p)) = 1
               /\ \A i \in FindingsFor(p) : report.findings[i].kind = "MISSING"
               /\ p \in DOMAIN Scan
               /\ Scan[p] = <<MISSING>>
               /\ report.changes = ChangesHadItStayed(p) + 1

\* C7: a path listed at init and at check, a readable regular file both
\* times with different bytes, gets Modified(path) and no other finding.
C7_ModificationDetected ==
    Checked =>
        \A p \in Files :
            ( /\ Listed(atInit, p) /\ Listed(atCheck, p)
              /\ Readable(atInit.fs[p]) /\ Readable(atCheck.fs[p])
              /\ atInit.fs[p] # atCheck.fs[p] )
            => /\ FindingsFor(p) # {}
               /\ \A i \in FindingsFor(p) : report.findings[i].kind = "MODIFIED"

\* C8: a path not listed at init, added to the list before check and on disk
\* at check, gets New(path), in the second phase, and no baseline-phase
\* finding.
C8_NewPathDetected ==
    Checked =>
        \A p \in Files :
            ( /\ ~Listed(atInit, p) /\ Listed(atCheck, p)
              /\ atCheck.fs[p] # "absent" )
            => /\ FindingsFor(p) # {}
               /\ \A i \in FindingsFor(p) :
                    /\ report.findings[i].kind = "NEW"
                    /\ i > report.nBaseline

\* ------------------------------------------------------- cmd_init, after
InitDone == pc = "idle" /\ lastCmd = "init" /\ status = "ok"

TokenOf(f, p) == StoreLine(f, p)[1]

\* The path-to-token mapping of the entries one pass writes for the paths
\* of scan: every path a key, unaltered, with the token of its last entry.
EntriesMapping(scan) ==
    [p \in {scan.paths[i] : i \in 1..Len(scan.paths)} |->
        LET last == CHOOSE i \in 1..Len(scan.paths) :
                        /\ scan.paths[i] = p
                        /\ \A j \in (i + 1)..Len(scan.paths) : scan.paths[j] # p
        IN <<TokenOf(scan.fs, scan.paths[last])>>]

\* C12: codec round trip. Parsing the text written for the entries of a
\* pass (paths without embedded whitespace, tokens a digest, MISSING or
\* ERROR) yields exactly the mapping of those entries: the same key set,
\* keys unaltered, each key with the token of its last occurrence.
C12_RoundTrip ==
    (Compared /\ atCheck.valid) =>
        ParseHashFile(lastScan.text) = EntriesMapping(atCheck)

\* ------------------------------------------------------ init idempotence
\* The init in progress scans the same paths, with the same content on disk,
\* as the init that wrote the present baseline.
SameAsLastInit ==
    /\ atInit.valid
    /\ atInit.paths = loc.paths
    /\ \A i \in 1..Len(loc.paths) :
           OnDisk(atInit.fs, loc.paths[i]) = OnDisk(loc.fs, loc.paths[i])

\* Line i of the store text ends with the i-th path, for every i.
InListOrder(text, paths) ==
    LET lines == SplitLines(text)
    IN /\ Len(lines) = Len(paths)
       /\ \A i \in 1..Len(paths) :
              /\ Len(lines[i]) = 3 + Len(paths[i])
              /\ SubSeq(lines[i], 4, Len(lines[i])) = paths[i]

\* C13: init idempotence. When init replaces the baseline and the list and
\* the tracked files are as they were at the init before, the new baseline
\* is byte for byte the old one, and both have their entries in list order.
C13_InitIdempotent ==
    [][(pc = "init_replace" /\ pc' = "init_copy_open" /\ SameAsLastInit)
          => /\ baseline'.exists
             /\ baseline'.text = baseline.text
             /\ InListOrder(baseline.text, loc.paths)
             /\ InListOrder(baseline'.text, loc.paths)]_vars

\* The second of two inits in succession, nothing changed in between, has
\* replaced the baseline of the first with the same two entries, b before a.
C13_Witness ==
    /\ pc = "init_copy_open"
    /\ nScans = 2
    /\ nEvents = 0
    /\ loc.paths = <<PathB, PathA>>
    /\ atInit.paths = loc.paths
    /\ baseline.exists
    /\ cmdPre[1] = baseline

\* ------------------------------------------- the list editor on its own
\* List files add and remove can meet: ending with a newline, without one,
\* with an empty line, with a line of one space, with a comment and an empty
\* line before a path, and the empty file. No path is listed twice.
ListTexts ==
    { <<"a", NL>>,
      <<"a">>,
      <<"a", NL, NL>>,
      <<"a", NL, SP, NL>>,
      <<HASHCH, NL, NL, "b", NL>>,
      <<>> }

\* The path argument as argparse hands it over: any string of the command
\* line, also one with a space in front, a comment mark or the empty string.
ListArgs == {PathA, PathB, <<SP, "a">>, <<HASHCH>>, <<>>}

InitList ==
    /\ listFile \in {FileOf(t) : t \in ListTexts}
    /\ fs \in InitialDisks
    /\ baseline = NoFile
    /\ lastScan = NoFile
    /\ tmpBaseline = NoFile
    /\ tmpScan = NoFile
    /\ pc = "idle"
    /\ loc = NoLoc
    /\ report = NoReport
    /\ status = "ok"
    /\ lastCmd = "none"
    /\ atInit = NoScan
    /\ atCheck = NoScan
    /\ cmdPre = <<NoFile, NoFile>>
    /\ cmdPost = <<NoFile, NoFile>>
    /\ nScans = 0
    /\ nEvents = 0
    /\ CardInit

NextList ==
    \/ \E path \in ListArgs : CmdAdd(path)
    \/ \E path \in ListArgs : CmdRemove(path)

SpecList == InitList /\ [][NextList]_vars

\* ---------------------------------------------------- list editor, claims
\* The path arguments that name something: every argument but the empty one.
NamedArgs == ListArgs \ {<<>>}

\* The number of lines of the list text whose content, as written or
\* trimmed, is p.
Occurrences(text, p) ==
    LET lines == SplitLines(text)
    IN Cardinality({i \in 1..Len(lines) :
                       lines[i] = p \/ Strip(lines[i]) = p})

\* C14: list idempotence. For every list and every path argument, add
\* called twice with the same literal path leaves exactly one line whose
\* content is the path, and the second add changes nothing; after any
\* sequence of adds and removes from a list without duplicates no path is
\* on more than one line.
C14_ListIdempotent ==
    listFile.exists =>
        \A p \in NamedArgs :
            LET once == AddToList(listFile.text, p)
                twice == AddToList(once, p)
            IN /\ twice = once
               /\ Occurrences(twice, p) = 1
               /\ Occurrences(listFile.text, p) <= 1

IsCommentOrBlank(ln) ==
    Strip(ln) = <<>> \/ Head(Strip(ln)) = HASHCH

\* The text ends with a newline that no other newline precedes.
EndsWithOneNewline(t) ==
    /\ t # <<>>
    /\ t[Len(t)] = NL
    /\ Len(t) >= 2 => t[Len(t) - 1] # NL

\* The lines of the list text whose trimmed content differs from p.
Retained(text, p) ==
    LET Differs(ln) == Strip(ln) # p
    IN SelectSeq(SplitLines(text), Differs)

StartsScan == nScans' # nScans

\* C16: a command that ends in the configuration error changes no store.
\* An init started when its list file does not exist, and a check started
\* when the list file or the baseline does not exist, end at once with the
\* error status and leave the baseline, last_scan, the two temporary files
\* and the list file exactly as they were.
C16_DieChangesNothing ==
    [][(StartsScan
        /\ (~listFile.exists \/ (lastCmd' = "check" /\ ~baseline.exists)))
          => /\ status' = "die"
             /\ pc' = "idle"
             /\ UNCHANGED <<listFile, baseline, lastScan, tmpBaseline,
                            tmpScan>>]_vars

\* A check has died for want of the list file, which was deleted after an
\* init: the baseline and last_scan of that init are still in place.
C16_Witness ==
    /\ status = "die"
    /\ lastCmd = "check"
    /\ pc = "idle"
    /\ ~listFile.exists
    /\ baseline.exists /\ baseline.text # <<>>
    /\ lastScan = baseline

\* ------------------------------------------------------- one pass, claims
\* The store text has one line per path the list loader yields, in list
\* order, each a token, two spaces and the path; the token is MISSING for
\* an absent file, ERROR for a file found whose read fails, and the digest
\* of the content otherwise.
OnePassStore(text) ==
    LET lines == SplitLines(text)
        paths == IterListPaths(listFile.text)
    IN /\ Len(lines) = Len(paths)
       /\ \A i \in 1..Len(paths) :
           LET c == OnDisk(fs, paths[i])
           IN /\ Len(lines[i]) = 3 + Len(paths[i])
              /\ SubSeq(lines[i], 2, Len(lines[i])) = <<SP, SP>> \o paths[i]
              /\ lines[i][1] \in {MISSING, ERROR, "sha(x)", "sha(y)"}
              /\ lines[i][1] = MISSING <=> c = "absent"
              /\ lines[i][1] = ERROR <=> c = "unreadable"
              /\ Readable(c) => lines[i][1] = Sha256OfFile(c)

\* C17: a scan never aborts on a single bad file. The store one pass has
\* written (the temporary file of init or check once written, and the store
\* it then replaces) has exactly one entry per listed path, in list order,
\* with MISSING for an absent file and ERROR for an unreadable one, and the
\* paths after such a file are hashed and written all the same.
C17_ScanNeverAborts ==
    /\ pc = "init_replace" => OnePassStore(tmpBaseline.text)
    /\ pc = "init_copy_open" => OnePassStore(baseline.text)
    /\ pc = "check_replace" => OnePassStore(tmpScan.text)
    /\ pc = "check_compare" => OnePassStore(lastScan.text)

\* The pass of a check over the list b, a has written its store: b cannot
\* be read and has ERROR, and a, after it, has its digest.
C17_Witness ==
    /\ pc = "check_replace"
    /\ IterListPaths(listFile.text) = <<PathB, PathA>>
    /\ fs[PathB] = "unreadable"
    /\ tmpScan.text = <<ERROR, SP, SP, "b", NL, "sha(x)", SP, SP, "a", NL>>

\* ------------------------------------------------------ add, the append
IsBlank(ln) == Strip(ln) = <<>>

\* No line of the list text, trimmed, is p: add(p) appends.
NotListed(text, p) ==
    \A i \in 1..Len(SplitLines(text)) : Strip(SplitLines(text)[i]) # p

\* C18: when add appends a path not yet in the list, the path is the final
\* line of the file, the file ends with exactly one newline, and the append
\* puts no blank line after a line that is already blank; whether the file
\* ended with a newline, without one or with a blank line, and over any
\* sequence of adds.
C18_AppendTidy ==
    listFile.exists =>
        \A p \in NamedArgs :
            NotListed(listFile.text, p) =>
                LET old == SplitLines(listFile.text)
                    new == AddToList(listFile.text, p)
                    lines == SplitLines(new)
                IN /\ lines # <<>> /\ lines[Len(lines)] = p
                   /\ EndsWithOneNewline(new)
                   /\ Len(lines) <= Len(old) + 2
                   /\ Len(lines) = Len(old) + 2 =>
                          ~IsBlank(old[Len(old)])

\* ---------------------------------------------- scan keys and list, claims
\* The paths the list loader yielded to the scan.
PathsOf(scan) == {scan.paths[i] : i \in 1..Len(scan.paths)}

NotScanned(p) ==
    \E i \in FindingsFor(p) : report.findings[i].kind = "MISSING (not scanned)"

\* C20: after a successful check the paths of the parsed last_scan are
\* exactly the paths the list loader yielded at that check; so the check
\* reports a path as missing from the scan exactly when it is in the
\* baseline and no longer in the list, and never for a path still listed.
C20_ScanKeysAreListed ==
    (Compared /\ atCheck.valid) =>
        /\ DOMAIN Scan = PathsOf(atCheck)
        /\ \A p \in Files \cup DOMAIN Base :
               NotScanned(p) <=> (p \in DOMAIN Base /\ p \notin PathsOf(atCheck))

\* ======================================================== the card server
\* JSON values: null (also a missing key), a string or a number with its
\* characters, true, false.
Null == [kind |-> "null", chars |-> <<>>]
JStr(chars) == [kind |-> "str", chars |-> chars]
JNum(chars) == [kind |-> "num", chars |-> chars]
JTrue == [kind |-> "true", chars |-> <<>>]
JFalse == [kind |-> "false", chars |-> <<>>]

Digits == {"0", "1", "2", "3", "4", "5", "6", "7", "8", "9"}
IsDigit(c) == c \in Digits
DigitVal(c) == CHOOSE n \in 0..9 : ToString(n) = c

\* The masking characters of is_valid_masked_card.
MaskChars == {STAR, "x", "X", "#"}
LastDigits == 4
MinMaskChars == 6
MaxCvvLen == 4

\* Python truth of a JSON value: "not v".
Falsy(v) ==
    \/ v.kind \in {"null", "false"}
    \/ v.kind = "str" /\ v.chars = <<>>
    \/ v.kind = "num" /\ \A i \in 1..Len(v.chars) : v.chars[i] = "0"

\* str(v), as the f-string of submit_card formats the value.
StrOf(v) ==
    CASE v.kind = "null" -> <<"N", "o", "n", "e">>
      [] v.kind = "true" -> <<"T", "r", "u", "e">>
      [] v.kind = "false" -> <<"F", "a", "l", "s", "e">>
      [] OTHER -> v.chars

NotSpace(c) == c # SP
IsMaskChar(c) == c \in MaskChars

is_valid_masked_card(masked) ==
    IF Falsy(masked) \/ masked.kind # "str" THEN FALSE
    ELSE LET compact == SelectSeq(masked.chars, NotSpace)
             n == Len(compact)
         IN IF ~(n >= LastDigits
                 /\ \A i \in (n - LastDigits + 1)..n : IsDigit(compact[i]))
            THEN FALSE
            ELSE LET prefix == SubSeq(compact, 1, n - LastDigits)
                 IN IF \E i \in 1..Len(prefix) : ~IsMaskChar(prefix[i])
                    THEN FALSE
                    ELSE Len(SelectSeq(prefix, IsMaskChar)) >= MinMaskChars

\* The clock: datetime.utcnow() of the request, year and month.
Nows == {[year |-> 2026, month |-> 11], [year |-> 2027, month |-> 1]}

is_valid_expiry(expiry, now) ==
    IF Falsy(expiry) \/ expiry.kind # "str" THEN FALSE
    ELSE LET e == expiry.chars
         IN IF ~( /\ Len(e) = 5
                  /\ \/ e[1] = "0" /\ e[2] \in Digits \ {"0"}
                     \/ e[1] = "1" /\ e[2] \in {"0", "1", "2"}
                  /\ e[3] = "/"
                  /\ IsDigit(e[4]) /\ IsDigit(e[5]) )
            THEN FALSE
            ELSE LET mm == 10 * DigitVal(e[1]) + DigitVal(e[2])
                     yy == 10 * DigitVal(e[4]) + DigitVal(e[5])
                     year == 2000 + yy
                 IN IF year < now.year THEN FALSE
                    ELSE IF year = now.year /\ mm < now.month THEN FALSE
                    ELSE TRUE

is_masked_cvv(cvv_mask) ==
    IF Falsy(cvv_mask) \/ cvv_mask.kind # "str" THEN FALSE
    ELSE IF \E i \in 1..Len(cvv_mask.chars) : IsDigit(cvv_mask.chars[i])
    THEN FALSE
    ELSE 1 <= Len(cvv_mask.chars) /\ Len(cvv_mask.chars) <= MaxCvvLen

\* -------------------------------------------------------------- requests
MaxSubmits == 2

MaskedCard == <<STAR, STAR, STAR, STAR, STAR, STAR, "1", "2", "3", "4">>
ShortMask == <<STAR, STAR, "1", "2", "3", "4">>
CardNumber == <<"4", "1", "1", "1", "1", "1", "1", "1",
                "1", "1", "1", "1", "1", "1", "1", "1">>

Cards == {Null, JStr(MaskedCard), JStr(ShortMask), JStr(CardNumber),
          JNum(CardNumber)}
Expiries == {Null, JStr(<<"1", "2", "/", "3", "0">>),
             JStr(<<"1", "1", "/", "2", "6">>),
             JStr(<<"0", "1", "/", "2", "0">>),
             JStr(<<"1", "3", "/", "3", "0">>)}
Cvvs == {Null, JStr(<<STAR, STAR, STAR>>), JStr(<<"1", "2", "3">>)}
Consents == {Null, JTrue, JFalse, JStr(<<"y", "e", "s">>)}

\* What request.get_json(silent=True) returns: None for a body that is not
\* JSON, the empty object, a JSON array, or an object with the four keys
\* (null for a key that is missing).
JsonBody(kind) == [kind |-> kind, masked_card |-> Null, expiry |-> Null,
                   cvv_mask |-> Null, consent |-> Null]
Bodies ==
    {JsonBody("none"), JsonBody("empty"), JsonBody("array")}
    \cup [kind : {"object"}, masked_card : Cards, expiry : Expiries,
          cvv_mask : Cvvs, consent : Consents]

Response(code, message) == [code |-> code, message |-> message]

\* The line submit_card appends: the timestamp and the three values as the
\* f-string formats them.
CardLine(now, data) ==
    [ts |-> now,
     masked_card |-> StrOf(data.masked_card),
     expiry |-> StrOf(data.expiry),
     cvv_mask |-> StrOf(data.cvv_mask)]

\* POST /submit_card with body data at time now.
submit_card(data, now) ==
    /\ Len(dataFile) < MaxSubmits
    /\ IF data.kind \in {"none", "empty"}
       THEN /\ response' = Response(400, "Invalid JSON")
            /\ dataFile' = dataFile
       ELSE IF data.kind = "array"
       THEN /\ response' = Response(500, "AttributeError")
            /\ dataFile' = dataFile
       ELSE IF data.consent # JTrue
       THEN /\ response' = Response(400, "Consent required")
            /\ dataFile' = dataFile
       ELSE IF ~is_valid_expiry(data.expiry, now)
       THEN /\ response' = Response(400, "expiry invalid")
            /\ dataFile' = dataFile
       ELSE /\ dataFile' = Append(dataFile, CardLine(now, data))
            /\ response' = Response(200, "Demo data saved")
    /\ UNCHANGED fic

\* The server runs on its own: the integrity checker's files are no part
\* of it and stay as a fresh installation has them.
InitCard ==
    /\ listFile = NoFile
    /\ fs \in InitialDisks
    /\ baseline = NoFile
    /\ lastScan = NoFile
    /\ tmpBaseline = NoFile
    /\ tmpScan = NoFile
    /\ pc = "idle"
    /\ loc = NoLoc
    /\ report = NoReport
    /\ status = "ok"
    /\ lastCmd = "none"
    /\ atInit = NoScan
    /\ atCheck = NoScan
    /\ cmdPre = <<NoFile, NoFile>>
    /\ cmdPost = <<NoFile, NoFile>>
    /\ nScans = 0
    /\ nEvents = 0
    /\ CardInit

NextCard == \E data \in Bodies, now \in Nows : submit_card(data, now)

SpecCard == InitCard /\ [][NextCard]_vars

\* ---------------------------------------------------- card server, claims
\* C19: the card-submission endpoint stores only masked values. Every
\* record submit_card has appended to the data file has a masked_card that
\* passes is_valid_masked_card and a cvv_mask that passes is_masked_cvv,
\* whatever the request bodies were.
C19_OnlyMaskedStored ==
    \A i \in 1..Len(dataFile) :
        /\ is_valid_masked_card(JStr(dataFile[i].masked_card))
        /\ is_masked_cvv(JStr(dataFile[i].cvv_mask))

====
